---- MODULE Spec2Model ----
(***************************************************************************)
(* A model of src/utils.py: the two dataset builders collect_curves and    *)
(* collect_curves_tofiles, the helper stitch, and the three csv files the  *)
(* second builder appends to.                                              *)
(*                                                                         *)
(* Numbers.  A float is a pair <<num, den>>: den > 0 is the rational       *)
(* num/den, <<0, 0>> is NaN and <<1, 0>> is +inf.  A Python object that is *)
(* compared with == is a pair <<type, payload>>.                           *)
(***************************************************************************)
EXTENDS Integers, Sequences, FiniteSets, TLC

---------------------------------------------------------------------------
(* Bounds of the model *)

\* largest n_curves a call is given
MaxCurves == 2
\* longest quarter a download returns
MaxLen == 3
\* most rows a csv file holds before the first call
MaxPreRows == 2
\* calls made in one behaviour
MaxCalls == 2

\* the values of n_timesteps the behaviours are run with (default 1000)
TimestepChoices == {3}
\* the values of pct_transit, in tenths of a percent (default 48.8)
PctChoices == {500}
\* downsize_method
Methods == {"interpolate", "truncate"}

\* Data/exoplanet_archive_KOIs.csv: kepids by disposition.  A star with one
\* CONFIRMED and one FALSE POSITIVE object of interest is in both lists.
all_transit_ids == {1}
all_nontransit_ids == {1, 2}

Tags == <<"flux", "time", "labels">>

---------------------------------------------------------------------------
(* Floats and Python objects *)

NaN == <<0, 0>>
Inf == <<1, 0>>
Flt(k) == <<k, 1>>
isnan(v) == v = NaN
isfinite(v) == v[2] > 0
PyInt(k) == <<"int", k>>
PyList0 == <<"list", 0>>
\* the builtin function id
PyBuiltinId == <<"builtin_function_or_method", 0>>

\* x in arr, for a numpy array of integers: (arr == x).any()
Contains(x, arr) == \E k \in 1..Len(arr) : PyInt(arr[k]) = x

\* the names module utils binds at import: its imports and its defs
UtilsGlobals ==
  {"np", "pd", "lk", "curve_fit", "csv", "os",
   "linear_func", "stitch", "collect_curves", "collect_curves_tofiles"}

\* the names collect_curves_tofiles looks up and utils does not bind
FreeNames == {"stitch_quarters", "medfilt", "binned_statistic"}

---------------------------------------------------------------------------
(* What a download returns *)

\* One cadence of a quarter.  norm is flux / linear_trend and rel_err is
\* flux_err / flux as stitch computes them; the fit itself is not modelled.
Sample(t, kind) ==
  [time |-> Flt(t),
   norm |-> IF kind = "nanflux" THEN NaN ELSE Flt(10 + t),
   rel_err |-> IF kind = "nanflux" THEN NaN ELSE Flt(1),
   quality |-> IF kind = "flagged" THEN 16 ELSE 0]

\* a quarter of len cadences from time t0 on, cadence bad (0: none) of kind
Quarter(t0, len, bad, kind) ==
  [k \in 1..len |-> Sample(t0 + k - 1, IF k = bad THEN kind ELSE "good")]

\* the LightCurveCollections download_all returns
Collections ==
  {<<Quarter(1, L, 0, "good")>> : L \in 1..MaxLen}
    \cup {<<Quarter(1, 3, 1, "flagged")>>, <<Quarter(1, 2, 1, "nanflux")>>,
          <<Quarter(1, 2, 0, "good"), Quarter(3, 2, 0, "good")>>}

\* raised: search or download raised; none: the search found nothing and
\* download_all returned None
DownloadOutcomes ==
  {[kind |-> "raised", curve |-> <<>>], [kind |-> "none", curve |-> <<>>]}
    \cup {[kind |-> "collection", curve |-> c] : c \in Collections}

---------------------------------------------------------------------------
(* stitch and the per-star processing *)

RECURSIVE hstack(_, _)
\* the chain of np.hstack calls over the quarters' arrays of one field
hstack(quarters, field) ==
  IF quarters = <<>> THEN <<>>
  ELSE [k \in 1..Len(Head(quarters)) |-> Head(quarters)[k][field]]
         \o hstack(Tail(quarters), field)

\* curve_fit of two parameters raises on fewer than two unmasked points
curve_fit_raises(quarter) ==
  Cardinality({k \in 1..Len(quarter) : ~isnan(quarter[k].norm)}) < 2

\* stitch(lc_collection); len(None) raises TypeError
stitch(outcome) ==
  IF outcome.kind = "none" THEN [raises |-> "TypeError"]
  ELSE IF \E q \in 1..Len(outcome.curve) : curve_fit_raises(outcome.curve[q])
  THEN [raises |-> "TypeError"]
  ELSE [raises |-> "",
        time |-> hstack(outcome.curve, "time"),
        flux |-> hstack(outcome.curve, "norm"),
        flux_err |-> hstack(outcome.curve, "rel_err"),
        quality |-> hstack(outcome.curve, "quality")]

\* flux / medfilt(flux, 51): the filter pads with zeros, so on a curve of
\* at most 25 positive cadences every median is 0
medfilt_ratio(flux) ==
  [k \in 1..Len(flux) |-> IF isnan(flux[k]) THEN NaN ELSE Inf]

\* good = (quality == 0) * (flux_err > 0) * isfinite(time) * isfinite(flux)
\*        * isfinite(flux_err);  flux[np.invert(good)] = np.NaN
mask_poor_quality(st, flux) ==
  [k \in 1..Len(flux) |->
     IF /\ st.quality[k] = 0
        /\ isfinite(st.flux_err[k]) /\ st.flux_err[k][1] > 0
        /\ isfinite(st.time[k])
        /\ isfinite(flux[k])
     THEN flux[k] ELSE NaN]

\* np.interp(np.linspace(0, n-1, n), np.linspace(0, n-1, len(fp)), fp):
\* entry j (from 0) is fp read at x = j, where sample k of fp sits at
\* k*(n-1)/(len(fp)-1); a single sample is returned everywhere
interp(n, fp) ==
  LET L == Len(fp)
      at(j) ==
        IF L = 1 THEN fp[1]
        ELSE LET k == CHOOSE c \in 0..(L - 1) :
                        /\ c * (n - 1) <= j * (L - 1)
                        /\ \A d \in 0..(L - 1) : d * (n - 1) <= j * (L - 1) => d <= c
                 off == j * (L - 1) - k * (n - 1)
             IN IF k = L - 1 \/ off = 0 THEN fp[k + 1]
                ELSE IF ~isfinite(fp[k + 1]) \/ ~isfinite(fp[k + 2]) THEN NaN
                ELSE <<fp[k + 1][1] * (n - 1) + (fp[k + 2][1] - fp[k + 1][1]) * off,
                       n - 1>>
  IN [j \in 1..n |-> at(j - 1)]

\* arr[0:n]
truncate(n, arr) == SubSeq(arr, 1, IF Len(arr) < n THEN Len(arr) ELSE n)

\* "Force to length n_timesteps": the two ifs on downsize_method
force_length(method, n, arr) ==
  IF method = "interpolate" THEN interp(n, arr)
  ELSE IF method = "truncate" THEN truncate(n, arr)
  ELSE arr

\* a[i] = row for a row of an array with n columns: a row of one entry is
\* broadcast, any other length but n raises ValueError
assign_row_raises(n, row) == Len(row) # n /\ Len(row) # 1
assign_row(n, row) == IF Len(row) = n THEN row ELSE [k \in 1..n |-> row[1]]

\* int(n_curves*(1-pct_transit/100)) and int(n_curves*(pct_transit/100)),
\* pct in tenths of a percent
n_nontransit(nc, pct) == (nc * (1000 - pct)) \div 1000
n_transit(nc, pct) == (nc * pct) \div 1000

---------------------------------------------------------------------------
(* The csv files *)

\* A file is [exists, rows]; a row is [src, vals]: vals are the fields of
\* the csv line and src = <<call, position>> names the loop iteration that
\* wrote it (<<0, r>> for line r of a file found before the first call).
Absent == [exists |-> FALSE, rows |-> <<>>]
Created == [exists |-> TRUE, rows |-> <<>>]

\* the line a file found before the first call holds
PreRow(tag, n, r) ==
  [src |-> <<0, r>>,
   vals |-> IF tag = "labels" THEN <<Flt(0)>> ELSE [k \in 1..n |-> Flt(0)]]

\* a file found before the first call: none, or one with at least a row
PreFiles(tag, n) ==
  {Absent} \cup
  {[exists |-> TRUE, rows |-> [r \in 1..c |-> PreRow(tag, n, r)]] : c \in 1..MaxPreRows}

\* len(pd.read_csv(filepath, header=None, delimiter=',')): a file with no
\* line raises EmptyDataError, a line with more fields than the first one
\* raises ParserError
read_csv_len(file) ==
  IF file.rows = <<>> THEN [raises |-> "EmptyDataError", len |-> 0]
  ELSE IF \E r \in 1..Len(file.rows) : Len(file.rows[r].vals) > Len(file.rows[1].vals)
  THEN [raises |-> "ParserError", len |-> 0]
  ELSE [raises |-> "", len |-> Len(file.rows)]

RECURSIVE check_files(_, _, _)
\* The loop over ['flux', 'time', 'labels'] from tag k on and the test that
\* follows it: a missing file is created and [0] is put on filelengths, an
\* existing one is read and its number of lines is put on filelengths.
check_files(k, fs, filelengths) ==
  IF k > Len(Tags)
  THEN [files |-> fs,
        raises |-> IF \A e \in 1..Len(filelengths) : filelengths[e] = filelengths[1]
                   THEN "" ELSE "Exception"]
  ELSE IF ~fs[Tags[k]].exists
  THEN check_files(k + 1, [fs EXCEPT ![Tags[k]] = Created],
                   Append(filelengths, PyList0))
  ELSE LET got == read_csv_len(fs[Tags[k]])
       IN IF got.raises # "" THEN [files |-> fs, raises |-> got.raises]
          ELSE check_files(k + 1, fs, Append(filelengths, PyInt(got.len)))

\* csv.writer(f).writerow(vals) on a file opened for append
writerow(file, src, vals) ==
  [file EXCEPT !.rows = Append(@, [src |-> src, vals |-> vals])]

---------------------------------------------------------------------------
(* State *)

VARIABLES
  module_globals,   \* the names bound in module utils
  n_timesteps,      \* the n_timesteps and pct_transit of the behaviour's
  pct_transit,      \*   calls: they name the three files
  files,            \* savepath: tag -> file
  call,             \* number of calls made so far
  fn,               \* the function of the current call
  status,           \* idle | loop | returned | raised
  exc,              \* the exception the call raised
  line,             \* source line the call last stopped at
  n_curves, downsize_method, phase_fold, smooth,
  transit_ids, all_ids,
  pos,              \* position of the for loop in all_ids, from 1
  i,                \* the counter i
  all_curves, all_times, all_labels,
  time, flux,       \* the loop body's locals
  downloads,        \* the downloads the call attempted: [pos, kind]
  entry_files       \* files as the call found them

vars ==
  <<module_globals, n_timesteps, pct_transit, files, call, fn, status, exc,
    line, n_curves, downsize_method, phase_fold, smooth, transit_ids, all_ids,
    pos, i, all_curves, all_times, all_labels, time, flux, downloads,
    entry_files>>

\* module, parameters and files stay as they are
SameWorld == UNCHANGED <<module_globals, n_timesteps, pct_transit>>

InitCall ==
  /\ call = 0 /\ fn = "none" /\ status = "idle" /\ exc = "" /\ line = 0
  /\ n_curves = 0 /\ downsize_method = "interpolate"
  /\ phase_fold = FALSE /\ smooth = FALSE
  /\ transit_ids = <<>> /\ all_ids = <<>>
  /\ pos = 1 /\ i = 0
  /\ all_curves = <<>> /\ all_times = <<>> /\ all_labels = <<>>
  /\ time = <<>> /\ flux = <<>>
  /\ downloads = <<>>

InitWorld ==
  /\ n_timesteps \in TimestepChoices
  /\ pct_transit \in PctChoices
  /\ \E fl \in PreFiles("flux", n_timesteps), ti \in PreFiles("time", n_timesteps),
        la \in PreFiles("labels", n_timesteps) :
       files = [tag \in {"flux", "time", "labels"} |->
                  IF tag = "flux" THEN fl ELSE IF tag = "time" THEN ti ELSE la]
  /\ entry_files = files

\* utils as src/utils.py defines it
Init == InitCall /\ InitWorld /\ module_globals = UtilsGlobals

---------------------------------------------------------------------------
(* The head of both functions: the ids *)

\* the values all_ids can take: the two np.random.choice draws (with
\* replacement), concatenated, then reordered by np.random.permutation
Drawn(nc, pct) ==
  LET kn == n_nontransit(nc, pct)
      kt == n_transit(nc, pct)
  IN {[transit_ids |-> tr,
       all_ids |-> [j \in 1..(kn + kt) |-> (nt \o tr)[p[j]]]] :
        nt \in [1..kn -> all_nontransit_ids],
        tr \in [1..kt -> all_transit_ids],
        p \in Permutations(1..(kn + kt))}

\* np.zeros((rows, cols))
zeros2(rows, cols) == [r \in 1..rows |-> [c \in 1..cols |-> Flt(0)]]

---------------------------------------------------------------------------
(* collect_curves *)

\* label = int(1) if id in transit_ids else int(0)
collect_curves_label(star, tids) ==
  IF Contains(PyBuiltinId, tids) THEN 1 ELSE 0

\* the call up to the for loop
CallCollectCurves(nc, method) ==
  /\ status # "loop" /\ call < MaxCalls
  /\ \E d \in Drawn(nc, pct_transit) :
       /\ transit_ids' = d.transit_ids
       /\ all_ids' = d.all_ids
       /\ all_curves' = zeros2(Len(d.all_ids), n_timesteps)
       /\ all_times' = zeros2(Len(d.all_ids), n_timesteps)
       /\ all_labels' = [r \in 1..Len(d.all_ids) |-> 0]
  /\ call' = call + 1 /\ fn' = "collect_curves" /\ status' = "loop"
  /\ exc' = "" /\ line' = 107
  /\ n_curves' = nc /\ downsize_method' = method
  /\ phase_fold' = FALSE /\ smooth' = FALSE
  /\ pos' = 1 /\ i' = 0 /\ time' = <<>> /\ flux' = <<>> /\ downloads' = <<>>
  /\ entry_files' = files
  /\ UNCHANGED files /\ SameWorld

\* a loop that stays on the star it has just handled
next_pos_retry(p) == p

\* how the for loop moves on after a star
next_pos(p) == p + 1

\* one pass of the body of "for star in all_ids"
CollectCurvesIteration(o) ==
  /\ fn = "collect_curves" /\ status = "loop" /\ pos <= Len(all_ids)
  /\ downloads' = Append(downloads, [pos |-> pos, kind |-> o.kind])
  /\ LET star == all_ids[pos]
         st == stitch(o)
         masked == mask_poor_quality(st, st.flux)
         f == force_length(downsize_method, n_timesteps, masked)
         t == force_length(downsize_method, n_timesteps, st.time)
         label == collect_curves_label(star, transit_ids)
         raise(e, ln, tt, ff) ==
           /\ status' = "raised" /\ exc' = e /\ line' = ln
           /\ time' = tt /\ flux' = ff
           /\ UNCHANGED <<pos, i, all_curves, all_times, all_labels>>
     IN IF o.kind = "raised" THEN raise("DownloadError", 112, time, flux)
        ELSE IF st.raises # "" THEN raise(st.raises, 114, time, flux)
        ELSE IF assign_row_raises(n_timesteps, t) THEN raise("ValueError", 128, t, f)
        ELSE /\ all_times' = [all_times EXCEPT ![i + 1] = assign_row(n_timesteps, t)]
             /\ all_curves' = [all_curves EXCEPT ![i + 1] = assign_row(n_timesteps, f)]
             /\ all_labels' = [all_labels EXCEPT ![i + 1] = label]
             /\ i' = i + 1 /\ pos' = next_pos(pos)
             /\ time' = t /\ flux' = f
             /\ line' = 131
             /\ UNCHANGED <<status, exc>>
  /\ UNCHANGED <<files, call, fn, n_curves, downsize_method, phase_fold, smooth,
                 transit_ids, all_ids, entry_files>>
  /\ SameWorld

\* the loop is over: return all_curves, all_times, all_labels
CollectCurvesReturn ==
  /\ fn = "collect_curves" /\ status = "loop" /\ pos > Len(all_ids)
  /\ status' = "returned" /\ line' = 133
  /\ UNCHANGED <<files, call, fn, exc, n_curves, downsize_method, phase_fold, smooth,
                 transit_ids, all_ids, pos, i, all_curves, all_times, all_labels,
                 time, flux, downloads, entry_files>>
  /\ SameWorld

---------------------------------------------------------------------------
(* collect_curves_tofiles *)

\* label = 1 if (star in transit_ids) else 0
tofiles_label(star, tids) ==
  IF Contains(PyInt(star), tids) THEN 1 ELSE 0

\* stitch_quarters is bound nowhere in utils; where a caller binds it, it
\* is taken to be the stitching of segments the specification describes
stitch_quarters(o) == stitch(o)

\* binned_statistic(folded_time, folded_flux, 'median', bins = n): n
\* medians and n + 1 edges.  Only the shapes are modelled.
binned_statistic(n) ==
  [binned |-> [k \in 1..n |-> NaN],
   bin_edges |-> [k \in 1..(n + 1) |-> Flt(k - 1)]]

\* medfilt(binned, 3) keeps the length
medfilt3(binned) == [k \in 1..Len(binned) |-> binned[k]]

\* a phase_fold branch that leaves the label out
phase_fold_writes_no_label(fs, src, f, t, label) ==
  [fs EXCEPT !["flux"] = writerow(@, src, f),
             !["time"] = writerow(@, src, t)]

\* the three writerow calls that end a pass of the phase_fold branch
phase_fold_writes(fs, src, f, t, label) ==
  [fs EXCEPT !["flux"] = writerow(@, src, f),
             !["time"] = writerow(@, src, t),
             !["labels"] = writerow(@, src, <<Flt(label)>>)]

\* the three writerow calls that end a pass of the normal branch
normal_writes(fs, src, f, t, label) ==
  [fs EXCEPT !["flux"] = writerow(@, src, f),
             !["time"] = writerow(@, src, t),
             !["labels"] = writerow(@, src, <<Flt(label)>>)]

\* the call up to the for loop: the ids, the check of the files, the opens
CallCollectCurvesTofiles(nc, method, pf, sm) ==
  /\ status # "loop" /\ call < MaxCalls
  /\ \E d \in Drawn(nc, pct_transit) :
       /\ transit_ids' = d.transit_ids
       /\ all_ids' = d.all_ids
  /\ LET chk == check_files(1, files, <<>>)
     IN /\ files' = chk.files
        /\ IF chk.raises # ""
           THEN status' = "raised" /\ exc' = chk.raises
                /\ line' = (IF chk.raises = "Exception" THEN 188 ELSE 186)
           ELSE status' = "loop" /\ exc' = "" /\ line' = 196
  /\ call' = call + 1 /\ fn' = "collect_curves_tofiles"
  /\ n_curves' = nc /\ downsize_method' = method
  /\ phase_fold' = pf /\ smooth' = sm
  /\ pos' = 1 /\ i' = 0 /\ time' = <<>> /\ flux' = <<>> /\ downloads' = <<>>
  /\ all_curves' = <<>> /\ all_times' = <<>> /\ all_labels' = <<>>
  /\ entry_files' = files
  /\ SameWorld

\* one pass of the body of "for star in all_ids"
TofilesIteration(o) ==
  /\ fn = "collect_curves_tofiles" /\ status = "loop" /\ pos <= Len(all_ids)
  /\ downloads' = Append(downloads, [pos |-> pos, kind |-> o.kind])
  /\ LET star == all_ids[pos]
         label == tofiles_label(star, transit_ids)
         src == <<call, pos>>
         st == stitch_quarters(o)
         smoothed == IF smooth THEN medfilt_ratio(st.flux) ELSE st.flux
         bs == binned_statistic(n_timesteps)
         folded_smoothed_time == Tail(bs.bin_edges)
         folded_smoothed_flux == medfilt3(bs.binned)
         masked == mask_poor_quality(st, smoothed)
         f == force_length(downsize_method, n_timesteps, masked)
         t == force_length(downsize_method, n_timesteps, st.time)
         raise(e, ln, tt, ff) ==
           /\ status' = "raised" /\ exc' = e /\ line' = ln
           /\ time' = tt /\ flux' = ff
           /\ UNCHANGED <<pos, i, files>>
     IN IF o.kind = "raised" THEN raise("DownloadError", 203, time, flux)
        ELSE IF "stitch_quarters" \notin module_globals
        THEN raise("NameError", 205, time, flux)
        ELSE IF st.raises # "" THEN raise(st.raises, 205, time, flux)
        ELSE IF smooth /\ "medfilt" \notin module_globals
        THEN raise("NameError", 208, st.time, st.flux)
        ELSE IF phase_fold /\ "binned_statistic" \notin module_globals
        THEN raise("NameError", 224, st.time, smoothed)
        ELSE IF phase_fold /\ "medfilt" \notin module_globals
        THEN raise("NameError", 226, st.time, smoothed)
        ELSE IF phase_fold
        THEN /\ files' = phase_fold_writes(files, src, folded_smoothed_flux,
                                           folded_smoothed_time, label)
             /\ pos' = next_pos(pos)
             /\ time' = st.time /\ flux' = smoothed
             /\ line' = 230
             /\ UNCHANGED <<status, exc, i>>
        ELSE /\ files' = normal_writes(files, src, f, t, label)
             /\ i' = i + 1 /\ pos' = next_pos(pos)
             /\ time' = t /\ flux' = f
             /\ line' = 245
             /\ UNCHANGED <<status, exc>>
  /\ UNCHANGED <<call, fn, n_curves, downsize_method, phase_fold, smooth,
                 transit_ids, all_ids, all_curves, all_times, all_labels,
                 entry_files>>
  /\ SameWorld

\* the loop is over: the with block closes the files and the call returns
TofilesReturn ==
  /\ fn = "collect_curves_tofiles" /\ status = "loop" /\ pos > Len(all_ids)
  /\ status' = "returned" /\ line' = 191
  /\ UNCHANGED <<files, call, fn, exc, n_curves, downsize_method, phase_fold, smooth,
                 transit_ids, all_ids, pos, i, all_curves, all_times, all_labels,
                 time, flux, downloads, entry_files>>
  /\ SameWorld

---------------------------------------------------------------------------
(* Specifications *)

Next ==
  \/ \E nc \in 1..MaxCurves, m \in Methods : CallCollectCurves(nc, m)
  \/ \E o \in DownloadOutcomes : CollectCurvesIteration(o)
  \/ CollectCurvesReturn
  \/ \E nc \in 1..MaxCurves, m \in Methods, pf \in BOOLEAN, sm \in BOOLEAN :
       CallCollectCurvesTofiles(nc, m, pf, sm)
  \/ \E o \in DownloadOutcomes : TofilesIteration(o)
  \/ TofilesReturn

\* the program as src/utils.py is
Spec == Init /\ [][Next]_vars

\* utils with the names collect_curves_tofiles needs bound by its caller
InitBound == InitCall /\ InitWorld /\ module_globals = UtilsGlobals \cup FreeNames
SpecBound == InitBound /\ [][Next]_vars

---------------------------------------------------------------------------
(* Properties *)

TagSet == {"flux", "time", "labels"}
NRows(fs, tag) == Len(fs[tag].rows)
InTofiles == fn = "collect_curves_tofiles"
\* the call got past the check of the files
PastCheck == InTofiles /\ line \notin {186, 188}

\* C1: in collect_curves, every label stored so far is 1 exactly when the
\* star of that row is one of the ids drawn from the CONFIRMED list.
C1_LabelsFollowTransitIds ==
  fn = "collect_curves" =>
    \A k \in 1..i :
      all_labels[k] = (IF \E j \in 1..Len(transit_ids) : transit_ids[j] = all_ids[k]
                       THEN 1 ELSE 0)

\* C2: whenever a pass of either loop has forced a star's curve to length
\* (interpolate or truncate, phase_fold off), the flux row and the time row
\* it goes on with have exactly n_timesteps entries.
C2_RowsHaveNTimesteps ==
  line \in {128, 131, 245} =>
    Len(flux) = n_timesteps /\ Len(time) = n_timesteps

C4_EachFileGrowsByLenAllIds ==
  /\ PastCheck /\ status \in {"returned", "raised"}
  /\ ~phase_fold /\ ~smooth /\ Len(all_ids) >= 1
  /\ \A d \in 1..Len(downloads) : downloads[d].kind = "collection"
  => \A tag \in TagSet :
       NRows(files, tag) = NRows(entry_files, tag) + Len(all_ids)

\* C5: a call of collect_curves_tofiles that found the three files with
\* differing numbers of rows raises in the check and appends nothing; one
\* that found them with equal numbers of rows, or found none, gets past the
\* check.
C5_CheckOfTheFiles ==
  InTofiles =>
    LET all_exist == \A tag \in TagSet : entry_files[tag].exists
        none_exists == \A tag \in TagSet : ~entry_files[tag].exists
        equal == \A tag \in TagSet : NRows(entry_files, tag) = NRows(entry_files, "flux")
    IN /\ all_exist /\ ~equal =>
            /\ status = "raised" /\ line \in {186, 188} /\ downloads = <<>>
            /\ \A tag \in TagSet : files[tag].rows = entry_files[tag].rows
       /\ (all_exist /\ equal) \/ none_exists => PastCheck

\* C6: within a call the downloads are those of positions 1, 2, ... of
\* all_ids, one each and in that order, and after the call has raised no
\* further download is made.
C6_SingleLinearPass ==
  [][IF call' # call THEN downloads' = <<>>
     ELSE IF status = "raised" THEN downloads' = downloads
     ELSE \/ downloads' = downloads
          \/ /\ Len(downloads') = Len(downloads) + 1
             /\ SubSeq(downloads', 1, Len(downloads)) = downloads
             /\ downloads'[Len(downloads')].pos = Len(downloads) + 1
             /\ Len(downloads') <= Len(all_ids)]_vars

\* C6 witness: collect_curves has raised on the first of two stars, whose
\* download is the only one of the call.
C6_Witness ==
  /\ fn = "collect_curves" /\ status = "raised" /\ line \in {112, 114}
  /\ Len(all_ids) = 2 /\ Len(downloads) = 1

====
